---- MODULE Spec2Model ----
(***************************************************************************)
(* State-machine testing driver of rapid (statemachine.go): T.Repeat,      *)
(* stateMachine.executeAction and runAction, modelled as one trial that    *)
(* moves through the program positions of the three functions.             *)
(***************************************************************************)
EXTENDS Integers, FiniteSets, Sequences, TLC

\* ---------------------------------------------------------------- bounds
\* flags.steps: the configured number of steps of a trial.
MaxSteps == 2
\* Draws a trial may have made when another step is started.
MaxDraws == 3
\* Largest number of actions in a catalog.
MaxCatalog == 2
\* Largest number of methods of an object given to StateMachineActions.
MaxMethods == 2

\* ------------------------------------------------------------- constants
actionLabel == "action"
validActionTries == 100
noValidActionsMsg == "can't find a valid (non-skipped) action"

\* Panic values.  invalidData is the value t.Skip and the engine raise,
\* the others are values of other types.
invalidData == "invalidData"
actionFault == "action fault"
checkFault == "check fault"
failedMsg == "failed"
assertMsg == "state machine has no actions specified"
NoPanic == "none"

\* ----------------------------------------------------------------- inputs
\* A StateMachineAction's Func, described by what its body does when run:
\* it makes `draws` draws and then returns, raises invalidData (t.Skip),
\* panics with another value, records an error (t.Errorf) and returns, or
\* records an error and then raises invalidData.
Endings == {"return", "skip", "panic", "error", "errorskip"}

ActionBodies == [draws : {0, 1}, ending : Endings]

Catalogs == {c \in SUBSET ActionBodies : Cardinality(c) >= 1 /\ Cardinality(c) <= MaxCatalog}

\* The methods of the object given to StateMachineActions: a method has
\* the shape func(*T), with a body, or another shape.
ActionShape == "func(*T)"

OtherMethods == {[shape |-> "func()", body |-> [draws |-> 0, ending |-> "none"]],
                 [shape |-> "func(*T) error", body |-> [draws |-> 0, ending |-> "none"]]}

Methods == [shape : {ActionShape}, body : ActionBodies] \cup OtherMethods

Objects == {o \in SUBSET Methods : Cardinality(o) <= MaxMethods}

\* What one invocation of the check function does.
CheckEndings == {"return", "panic", "error"}

VARIABLES
    pc,         \* position in Repeat / executeAction / runAction
    actions,    \* sm.actions: the catalog the generator samples from
    hasCheck,   \* check != nil
    short,      \* testing.Short()
    count,      \* steps the repeat has counted
    n,          \* executeAction's attempt counter
    i,          \* handle returned by beginGroup
    action,     \* the action drawn on this attempt
    draws,      \* t.draws
    invalid,    \* runAction's first result
    skipped,    \* runAction's second result
    failed,     \* an error is pending in t
    panicked,   \* the value that unwound the trial, or NoPanic
    groups,     \* number of groups begun so far
    open,       \* handles of the groups begun and not ended
    checkCalls, \* invocations of check
    completed,  \* action bodies that ran to completion without pending error
    attempts,   \* actions drawn by the current executeAction call
    rejects,    \* calls of repeat.reject
    last,       \* what the action body of the last attempt did
    ran,        \* action bodies completed in the current executeAction call
    lastCheck,  \* what the last invocation of check did
    sm,         \* methods of the object given to StateMachineActions
    sinceCheck, \* action bodies run since the last invocation of check
    doneSince,  \* action bodies completed since the last invocation of check
    costlyRuns, \* action bodies that raised invalidData after drawing
    frees,      \* bodies of this call that raised invalidData without drawing
    inGroup,    \* actions drawn since the last beginGroup
    ended       \* arguments and content of the last endGroup call

vars == <<pc, actions, hasCheck, short, count, n, i, action, draws, invalid,
          skipped, failed, panicked, groups, open, checkCalls, completed,
          attempts, rejects, last, ran, lastCheck, sm, sinceCheck, doneSince,
          costlyRuns, frees, inGroup, ended>>

NoAction == [draws |-> 0, ending |-> "none"]

\* Repeat: steps := flags.steps; if testing.Short() { steps /= 2 }
Steps(isShort) == IF isShort THEN MaxSteps \div 2 ELSE MaxSteps

NoGroup == [handle |-> -1, discard |-> FALSE, drawn |-> 0]

\* The state of a trial before anything has run.
InitTrial ==
    /\ sinceCheck = 0
    /\ doneSince = 0
    /\ costlyRuns = 0
    /\ frees = 0
    /\ inGroup = 0
    /\ ended = NoGroup
    /\ hasCheck \in BOOLEAN
    /\ short \in BOOLEAN
    /\ count = 0
    /\ n = 0
    /\ i = 0
    /\ action = NoAction
    /\ draws = 0
    /\ invalid = FALSE
    /\ skipped = FALSE
    /\ failed = FALSE
    /\ panicked = NoPanic
    /\ groups = 0
    /\ open = {}
    /\ checkCalls = 0
    /\ completed = 0
    /\ attempts = 0
    /\ rejects = 0
    /\ last = "none"
    /\ ran = 0
    /\ lastCheck = "none"

Init ==
    /\ pc = "start"
    /\ actions \in Catalogs
    /\ sm = {}
    /\ InitTrial

\* ------------------------------------------------------- engine interface
\* t.failOnError(): surfaces a pending error as a panic.
FailOnError(isFailed) == IF isFailed THEN failedMsg ELSE NoPanic

\* repeat.more: another step is run while the step budget is not used up.
RepeatMore(cnt, isShort) == cnt < Steps(isShort)

\* repeat.reject: the rejected step does not count against the budget.
RepeatReject(cnt) == cnt - 1

\* ------------------------------------------------------------- runAction
\* What the action body raises: t.Skip raises invalidData, a failing
\* assertion raises another value, a body that returns raises nothing and
\* the t.failOnError() after it raises when an error is pending.
\* Variant: runAction returns without t.failOnError().
BodyRaisesNoFailCheck(a, isFailed) ==
    CASE a.ending \in {"skip", "errorskip"} -> invalidData
      [] a.ending = "panic" -> actionFault
      [] OTHER -> NoPanic

BodyRaises(a, isFailed) ==
    CASE a.ending \in {"skip", "errorskip"} -> invalidData
      [] a.ending = "panic" -> actionFault
      [] a.ending = "error" -> FailOnError(TRUE)
      [] OTHER -> FailOnError(isFailed)

\* The body records an error in t (t.Errorf).
BodyFails(a) == a.ending \in {"error", "errorskip"}

\* Variant: no recovered value is taken for invalidData.
IsInvalidDataNever(r) == FALSE

\* if _, ok := r.(invalidData); ok
IsInvalidData(r) == r = invalidData

\* Variant: every inapplicable attempt counts as skipped.
SkippedAlways(now, before) == TRUE

\* Variant: an attempt counts as skipped when it did draw.
SkippedWhenDrawn(now, before) == now # before

\* skipped = t.draws == draws
Skipped(now, before) == now = before

\* Variant: the deferred function recovers every panic.
PropagatesNothing(r) == NoPanic

\* Variant: the draw counter is recorded before the action is drawn.
DrawsBeforeSelection(d) == d - 1

\* defer func(draws int) {...}(t.draws): the value recorded when runAction
\* is entered.
DrawsAtStart(d) == d

\* The deferred function of runAction: the value that leaves runAction.
Propagates(r) == IF r # NoPanic /\ ~IsInvalidData(r) THEN r ELSE NoPanic

\* --------------------------------------------------------- executeAction
\* Variant: one attempt too many.
TriesLeftOffByOne(tries) == tries <= validActionTries

\* for n := 0; n < validActionTries; n++
TriesLeft(tries) == tries < validActionTries

\* Variant: the group is ended with discard set.
EndGroupArgsDiscard(h) == [handle |-> h, discard |-> TRUE]

\* t.s.endGroup(i, false): the arguments of the call.
EndGroupArgs(h) == [handle |-> h, discard |-> FALSE]

\* Variant: the group is not closed.
CloseGroupNoop(os, h) == os

\* t.s.endGroup(i, false): the group with handle h is no longer open.
CloseGroup(os, h) == os \ {h}

\* Variants: executeAction reports success always / on invalid attempts.
ExecuteResultAlways(inv) == TRUE

ExecuteResultInverted(inv) == inv

\* return !invalid
ExecuteResult(inv) == ~inv

\* ---------------------------------------------------------------- Repeat
\* Variant: what the check raises is swallowed.
CheckRaisesNothing(e) == NoPanic

\* One invocation of check followed by t.failOnError(); e is what the
\* check does.  Gives the value that unwinds the trial, or NoPanic.
CheckRaises(e) ==
    CASE e = "panic" -> checkFault
      [] e = "error" -> FailOnError(TRUE)
      [] OTHER -> FailOnError(FALSE)

\* Repeat, lines 42-45: the check before the first step.
CheckInitial ==
    /\ pc = "start"
    /\ \E e \in (IF hasCheck THEN CheckEndings ELSE {"none"}) :
         LET r == IF hasCheck THEN CheckRaises(e) ELSE FailOnError(failed) IN
         /\ checkCalls' = IF hasCheck THEN checkCalls + 1 ELSE checkCalls
         /\ lastCheck' = e
         /\ sinceCheck' = IF hasCheck THEN 0 ELSE sinceCheck
         /\ doneSince' = IF hasCheck THEN 0 ELSE doneSince
         /\ failed' = (r = failedMsg)
         /\ panicked' = r
         /\ pc' = IF r = NoPanic THEN "more" ELSE "aborted"
    /\ UNCHANGED <<actions, hasCheck, short, count, n, i, action, draws, invalid,
                   skipped, groups, open, completed, attempts, rejects, last, ran,
                   sm, costlyRuns, frees, inGroup, ended>>

\* Repeat, line 46: the loop condition, entering executeAction when it holds.
More ==
    /\ pc = "more"
    /\ IF RepeatMore(count, short)
       THEN /\ draws < MaxDraws
            /\ count' = count + 1
            /\ n' = 0
            /\ attempts' = 0
            /\ ran' = 0
            /\ frees' = 0
            /\ pc' = "loop"
       ELSE /\ pc' = "done"
            /\ UNCHANGED <<count, n, attempts, ran, frees>>
    /\ UNCHANGED <<actions, hasCheck, short, i, action, draws, invalid, skipped,
                   failed, panicked, groups, open, checkCalls, completed,
                   rejects, last, lastCheck,
                   sm, sinceCheck, doneSince, costlyRuns, inGroup, ended>>

\* executeAction, lines 109-110: an attempt begins by opening a group.
BeginGroup ==
    /\ pc = "loop"
    /\ TriesLeft(n)
    /\ i' = groups
    /\ groups' = groups + 1
    /\ open' = open \cup {groups}
    /\ inGroup' = 0
    /\ pc' = "draw"
    /\ UNCHANGED <<actions, hasCheck, short, count, n, action, draws, invalid,
                   skipped, failed, panicked, checkCalls, completed, attempts,
                   rejects, last, ran, lastCheck,
                   sm, sinceCheck, doneSince, costlyRuns, frees, ended>>

\* executeAction, line 122: the attempts are used up.
NoValidAction ==
    /\ pc = "loop"
    /\ ~TriesLeft(n)
    /\ panicked' = noValidActionsMsg
    /\ pc' = "aborted"
    /\ UNCHANGED <<actions, hasCheck, short, count, n, i, action, draws, invalid,
                   skipped, failed, groups, open, checkCalls, completed,
                   attempts, rejects, last, ran, lastCheck,
                   sm, sinceCheck, doneSince, costlyRuns, frees, inGroup, ended>>

\* executeAction, line 111: sm.actions.Draw(t, "action").
Draw ==
    /\ pc = "draw"
    /\ action' \in actions
    /\ draws' = draws + 1
    /\ attempts' = attempts + 1
    /\ inGroup' = inGroup + 1
    /\ pc' = "run"
    /\ UNCHANGED <<actions, hasCheck, short, count, n, i, invalid, skipped,
                   failed, panicked, groups, open, checkCalls, completed,
                   rejects, last, ran, lastCheck,
                   sm, sinceCheck, doneSince, costlyRuns, frees, ended>>

\* runAction, lines 125-141: the body runs and the deferred function
\* classifies what it raised.
RunAction ==
    /\ pc = "run"
    /\ LET before == DrawsAtStart(draws)
           now == draws + action.draws
           r == BodyRaises(action, failed)
           out == Propagates(r)
       IN /\ draws' = now
          /\ failed' = (failed \/ BodyFails(action))
          /\ invalid' = (r # NoPanic /\ IsInvalidData(r))
          /\ skipped' = (r # NoPanic /\ IsInvalidData(r) /\ Skipped(now, before))
          /\ panicked' = out
          /\ pc' = IF out = NoPanic THEN "end" ELSE "aborted"
          /\ completed' = IF r = NoPanic THEN completed + 1 ELSE completed
          /\ ran' = IF r = NoPanic THEN ran + 1 ELSE ran
          /\ sinceCheck' = sinceCheck + 1
          /\ doneSince' = IF r = NoPanic THEN doneSince + 1 ELSE doneSince
          /\ costlyRuns' = IF r = invalidData /\ action.draws > 0
                            THEN costlyRuns + 1 ELSE costlyRuns
          /\ frees' = IF r = invalidData /\ action.draws = 0
                       THEN frees + 1 ELSE frees
          /\ last' = CASE r = NoPanic -> "completed"
                       [] r = invalidData /\ action.draws = 0 -> "free"
                       [] r = invalidData /\ action.draws > 0 -> "costly"
                       [] OTHER -> "fatal"
    /\ UNCHANGED <<actions, hasCheck, short, count, n, i, action, groups, open,
                   checkCalls, attempts, rejects, lastCheck,
                   sm, inGroup, ended>>

\* executeAction, lines 113-119: the group is closed, then the attempt is
\* retried or executeAction returns.
EndGroup ==
    /\ pc = "end"
    /\ open' = CloseGroup(open, EndGroupArgs(i).handle)
    /\ ended' = [handle |-> EndGroupArgs(i).handle,
                 discard |-> EndGroupArgs(i).discard,
                 drawn |-> inGroup]
    /\ IF skipped
       THEN /\ n' = n + 1
            /\ pc' = "loop"
       ELSE /\ n' = n
            /\ pc' = IF ExecuteResult(invalid) THEN "check" ELSE "reject"
    /\ UNCHANGED <<actions, hasCheck, short, count, i, action, draws, invalid,
                   skipped, failed, panicked, groups, checkCalls, completed,
                   attempts, rejects, last, ran, lastCheck,
                   sm, sinceCheck, doneSince, costlyRuns, frees, inGroup>>

\* Variant: the step loop goes on without invoking the check.
CheckAfterSkipped ==
    /\ pc = "check"
    /\ pc' = "more"
    /\ UNCHANGED <<actions, hasCheck, short, count, n, i, action, draws, invalid,
                   skipped, failed, panicked, groups, open, checkCalls,
                   completed, attempts, rejects, last, ran, lastCheck, sm,
                   sinceCheck, doneSince, costlyRuns, frees, inGroup, ended>>

\* Repeat, lines 48-52: the check after a step that reported success.
CheckAfter ==
    /\ pc = "check"
    /\ \E e \in (IF hasCheck THEN CheckEndings ELSE {"none"}) :
         LET r == IF hasCheck THEN CheckRaises(e) ELSE FailOnError(failed) IN
         /\ checkCalls' = IF hasCheck THEN checkCalls + 1 ELSE checkCalls
         /\ lastCheck' = e
         /\ sinceCheck' = IF hasCheck THEN 0 ELSE sinceCheck
         /\ doneSince' = IF hasCheck THEN 0 ELSE doneSince
         /\ failed' = (r = failedMsg)
         /\ panicked' = r
         /\ pc' = IF r = NoPanic THEN "more" ELSE "aborted"
    /\ UNCHANGED <<actions, hasCheck, short, count, n, i, action, draws, invalid,
                   skipped, groups, open, completed, attempts, rejects, last, ran,
                   sm, costlyRuns, frees, inGroup, ended>>

\* Variant: the rejected step is followed by t.failOnError().
RejectFailsOnError ==
    /\ pc = "reject"
    /\ count' = RepeatReject(count)
    /\ rejects' = rejects + 1
    /\ panicked' = FailOnError(failed)
    /\ pc' = IF failed THEN "aborted" ELSE "more"
    /\ UNCHANGED <<actions, hasCheck, short, n, i, action, draws, invalid,
                   skipped, failed, groups, open, checkCalls,
                   completed, attempts, last, ran, lastCheck, sm, sinceCheck,
                   doneSince, costlyRuns, frees, inGroup, ended>>

\* Repeat, lines 53-55: the step is rejected.
Reject ==
    /\ pc = "reject"
    /\ count' = RepeatReject(count)
    /\ rejects' = rejects + 1
    /\ pc' = "more"
    /\ UNCHANGED <<actions, hasCheck, short, n, i, action, draws, invalid,
                   skipped, failed, panicked, groups, open, checkCalls,
                   completed, attempts, last, ran, lastCheck,
                   sm, sinceCheck, doneSince, costlyRuns, frees, inGroup, ended>>

\* --------------------------------------------------- StateMachineActions
\* m, ok := v.Method(i).Interface().(func(*T))
IsAction(m) == m.shape = ActionShape

\* StateMachineActions, lines 85-95: the methods kept as actions.
DiscoveredActions(obj) == {m.body : m \in {x \in obj : IsAction(x)}}

\* Variant: the assertion accepts an empty list.
HasActionsOrNone(acts) == Cardinality(acts) >= 0

\* assertf(len(actions) > 0, ...)
HasActions(acts) == Cardinality(acts) > 0

\* StateMachineActions, lines 78-100: the catalog is built from the
\* methods of sm, or the assertion fails.
StateMachineActions ==
    /\ pc = "construct"
    /\ LET acts == DiscoveredActions(sm) IN
       IF HasActions(acts)
       THEN /\ actions' = acts
            /\ pc' = "start"
            /\ panicked' = panicked
       ELSE /\ actions' = actions
            /\ pc' = "aborted"
            /\ panicked' = assertMsg
    /\ UNCHANGED <<hasCheck, short, count, n, i, action, draws, invalid,
                   skipped, failed, groups, open, checkCalls, completed,
                   attempts, rejects, last, ran, lastCheck, sm, sinceCheck,
                   doneSince, costlyRuns, frees, inGroup, ended>>

Next ==
    \/ CheckInitial
    \/ More
    \/ BeginGroup
    \/ NoValidAction
    \/ Draw
    \/ RunAction
    \/ EndGroup
    \/ CheckAfter
    \/ Reject

Spec == Init /\ [][Next]_vars

\* A trial whose catalog is made by StateMachineActions from an object.
InitSM ==
    /\ pc = "construct"
    /\ actions = {}
    /\ InitTrial
    /\ sm \in Objects

NextSM ==
    \/ StateMachineActions
    \/ Next

SpecSM == InitSM /\ [][NextSM]_vars

TypeOK ==
    /\ pc \in {"construct", "start", "more", "loop", "draw", "run", "end", "check", "reject",
               "done", "aborted"}
    /\ n \in 0..validActionTries
    /\ count \in 0..MaxSteps
    /\ draws \in Nat
    /\ open \subseteq 0..groups

\* ================================================================ claims
FreeSkip == [draws |-> 0, ending |-> "skip"]
CostlySkip == [draws |-> 1, ending |-> "skip"]
Completes == {a \in ActionBodies : a.ending = "return"}

\* executeAction was unwound by its own stopTest(noValidActionsMsg).
NoValid == pc = "aborted" /\ panicked = noValidActionsMsg

\* C1: with a non-nil check, the check has been invoked once before the
\* first step and once more for every action that ran to completion (a step
\* that reported success), and for nothing else: not after a rejected step,
\* not after a step that ran out of attempts.
C1_CheckOncePerSuccess ==
    /\ hasCheck =>
         checkCalls = CASE pc = "start" -> 0
                        [] pc \in {"end", "check"} /\ last = "completed" -> completed
                        [] OTHER -> completed + 1
    /\ ~hasCheck => checkCalls = 0

C1_Witness ==
    /\ hasCheck
    /\ pc = "more"
    /\ rejects >= 1
    /\ completed = 1
    /\ checkCalls = 2

\* C2 as stated: an attempt that is inapplicable after consuming entropy is
\* retried within the step, and a catalog of one such action makes a step
\* take 100 attempts and end in NoValidAction.
C2_CostlyIsRetried ==
    /\ last = "costly" => pc # "reject"
    /\ (actions = {CostlySkip} /\ pc \in {"check", "reject"}) => FALSE
    /\ (actions = {CostlySkip} /\ pc = "aborted" /\ lastCheck \notin {"panic", "error"})
         => (attempts = validActionTries /\ panicked = noValidActionsMsg)

\* C2 amended: an attempt that is inapplicable after consuming entropy ends
\* the step: the group is closed, executeAction returns false on that very
\* attempt and Repeat rejects the step; with a catalog of one such action
\* every executeAction call makes exactly one attempt and NoValidAction is
\* never raised.
C2_CostlyIsRejected ==
    /\ (pc = "end" /\ last = "costly") => (invalid /\ ~skipped)
    /\ pc = "reject" => (last = "costly" /\ attempts = n + 1 /\ open = {})
    /\ actions = {CostlySkip} =>
         /\ attempts <= 1
         /\ pc = "reject" => attempts = 1
         /\ pc # "check"
         /\ panicked # noValidActionsMsg
         /\ n = 0

C2_Witness ==
    /\ actions = {CostlySkip}
    /\ pc = "reject"
    /\ rejects = 1
    /\ attempts = 1

\* C3 as stated: an attempt that is inapplicable without consuming entropy
\* does not advance the attempt counter and never leads to NoValidAction.
C3_FreeIsNotCounted ==
    /\ (pc = "loop" /\ attempts > 0 /\ last = "free") => n < attempts
    /\ NoValid => last # "free"

\* C3 amended: an attempt that is inapplicable without consuming entropy
\* advances the attempt counter by one; a step makes at most 100 such
\* attempts and the 100th in a row ends in NoValidAction.
C3_FreeIsCounted ==
    /\ pc = "loop" => (n = attempts /\ (attempts > 0 => last = "free"))
    /\ attempts <= validActionTries
    /\ NoValid => (attempts = validActionTries /\ n = validActionTries /\ last = "free")

C3_Witness ==
    /\ NoValid
    /\ attempts = validActionTries
    /\ last = "free"

\* The catalog [A, B]: A always inapplicable without drawing, B completes.
CatalogAB == \E b \in Completes : actions = {FreeSkip, b}

\* C4 as stated: with catalog [A, B] every step ends with B selected and
\* the step succeeding; it never ends in NoValidAction.
C4_AlwaysEndsWithB ==
    CatalogAB => (panicked # noValidActionsMsg /\ pc # "reject")

\* C4 amended: with catalog [A, B] a step either ends with B selected and
\* the step succeeding, after A was sampled fewer than 100 times, or ends
\* in NoValidAction after A was sampled 100 times in a row; it is never
\* rejected.
C4_EndsWithBOrNoValid ==
    CatalogAB =>
      /\ pc = "check" => (action \in Completes /\ last = "completed"
                          /\ attempts = n + 1 /\ n < validActionTries)
      /\ pc # "reject"
      /\ NoValid => (action = FreeSkip /\ attempts = validActionTries)
      /\ pc = "aborted" => (NoValid \/ lastCheck \in {"panic", "error"})

C4_Witness ==
    /\ CatalogAB
    /\ pc = "check"
    /\ attempts = validActionTries
    /\ action \in Completes

\* C5 as stated: executeAction returns only after an action has run to
\* completion, and otherwise ends the trial with NoValidAction.
C5_ReturnsOnlyAfterCompletion ==
    /\ pc \in {"check", "reject"} => (ran = 1 /\ last = "completed")
    /\ (pc = "aborted" /\ lastCheck \notin {"panic", "error"}) => NoValid

\* C5 amended: executeAction returns true after exactly one action of the
\* call has run to completion, on its last attempt; it returns false after
\* an attempt that was inapplicable having consumed entropy, with no action
\* completed; or it ends the trial with NoValidAction or with the fatal
\* fault of an action.  It never returns true without a completed action.
C5_ExecuteOutcomes ==
    /\ pc = "check" => (ran = 1 /\ last = "completed")
    /\ pc = "reject" => (ran = 0 /\ last = "costly")
    /\ (pc = "aborted" /\ lastCheck \notin {"panic", "error"}) =>
         /\ ran = 0
         /\ \/ NoValid /\ last = "free"
            \/ last = "fatal" /\ panicked \in {actionFault, failedMsg}

C5_Witness ==
    /\ pc = "check"
    /\ ran = 1
    /\ n > 0
    /\ attempts = n + 1

\* C6: once the action of an attempt has run to completion (no pending
\* error), executeAction returns success on that attempt: it is the only
\* completed action of the call whatever the number of earlier inapplicable
\* attempts, no further action is drawn, and control only goes on to the
\* check of Repeat.
C6_CompletionEndsTheStep ==
    ran >= 1 =>
      /\ ran = 1
      /\ last = "completed"
      /\ attempts = n + 1
      /\ pc \in {"end", "check", "more", "done", "aborted"}
      /\ pc = "end" => (~invalid /\ ~skipped)
      /\ pc = "aborted" => lastCheck \in {"panic", "error"}

C6_Witness ==
    /\ pc = "check"
    /\ ran = 1
    /\ n >= 2
    /\ attempts = n + 1

\* C7: a fault of an action body other than invalidData leaves runAction
\* and executeAction with the value it was raised with and ends the trial
\* there: no retry, no further attempt, no check.
C7_FaultPropagates ==
    last = "fatal" =>
      /\ pc = "aborted"
      /\ panicked = IF action.ending = "panic" THEN actionFault ELSE failedMsg
      /\ lastCheck \in {"none", "return"}
      /\ ran = 0

C7_Witness ==
    /\ last = "fatal"
    /\ action.ending = "panic"
    /\ panicked = actionFault
    /\ attempts >= 2

\* C8: invalidData raised by an action body never leaves executeAction,
\* whether or not the body drew before raising it: the trial is never
\* unwound with it, and after an inapplicable attempt the trial only ends
\* through NoValidAction.
C8_InapplicableIsCaught ==
    /\ panicked # invalidData
    /\ (last \in {"free", "costly"} /\ pc = "aborted") => NoValid

C8_Witness ==
    /\ rejects >= 1
    /\ last = "free"
    /\ pc = "loop"
    /\ n > 0
    /\ panicked = NoPanic

\* C9 as stated: no group opened by executeAction is open once control has
\* left the attempt, on every exit path, the fatal one included.
C9_ClosedOnEveryPath ==
    pc \in {"start", "more", "loop", "check", "reject", "done", "aborted"}
      => open = {}

\* C9 amended: the group opened by an attempt is closed with endGroup when
\* runAction returns (action completed or inapplicable), before the next
\* attempt or the return of executeAction; when a fault or pending error of
\* the action unwinds the trial, endGroup is not called and the group of
\* that attempt stays open.
C9_ClosedUnlessFatal ==
    /\ pc \in {"start", "more", "loop", "check", "reject", "done"} => open = {}
    /\ pc \in {"draw", "run", "end"} => (open = {i} /\ i = groups - 1)
    /\ pc = "aborted" => open = IF last = "fatal" THEN {i} ELSE {}

C9_Witness ==
    /\ pc = "aborted"
    /\ last = "fatal"
    /\ open = {i}
    /\ i >= 1

\* A fatal signal has occurred: a fault or pending error of an action, of
\* the check, or NoValidAction.
FatalOccurred ==
    \/ last = "fatal"
    \/ lastCheck \in {"panic", "error"}
    \/ panicked # NoPanic

\* C10: once a fatal signal has occurred the trial is unwound and nothing
\* more is done in it: no action is drawn or run, no check is invoked.  When
\* the check fails on its second invocation, the trial has stopped right
\* after the first completed action.
C10_FatalStopsTheTrial ==
    /\ [](FatalOccurred => (pc = "aborted" /\ panicked # NoPanic))
    /\ []((lastCheck \in {"panic", "error"} /\ checkCalls = 2) =>
            (completed = 1 /\ ran = 1 /\ last = "completed"
             /\ attempts = n + 1 /\ open = {}))
    /\ [][pc # "aborted"]_vars

C10_Witness ==
    /\ lastCheck = "panic"
    /\ checkCalls = 2
    /\ pc = "aborted"
    /\ rejects >= 1

\* The object has no method of the shape of an action.
NoActionMethods == \A m \in sm : m.shape # ActionShape

\* C11: for an object without a method of the shape func(*T),
\* StateMachineActions fails its assertion and returns no catalog: nothing
\* of Repeat runs, no check, no step, no draw; a trial that got past
\* StateMachineActions has a non-empty catalog.
C11_NoActionsNoTrial ==
    /\ NoActionMethods =>
         /\ pc \in {"construct", "aborted"}
         /\ pc = "aborted" => panicked = assertMsg
         /\ actions = {}
         /\ checkCalls = 0 /\ count = 0 /\ groups = 0 /\ attempts = 0
         /\ sinceCheck = 0 /\ draws = 0
    /\ (pc # "construct" /\ panicked # assertMsg) =>
         (actions # {} /\ actions = {m.body : m \in {x \in sm : x.shape = ActionShape}})

C11_Witness ==
    /\ NoActionMethods
    /\ sm # {}
    /\ hasCheck
    /\ pc = "aborted"
    /\ panicked = assertMsg

\* C12 as stated: with a non-nil check no two action bodies are executed
\* without an invocation of the check between them, and no step begins
\* before the check of the step before it.
C12_StrictAlternation ==
    hasCheck =>
      /\ sinceCheck <= 1
      /\ (pc = "loop" /\ attempts = 0) => sinceCheck = 0

\* C12 amended: with a non-nil check no two action bodies run to completion
\* without an invocation of the check between them, and the check of a step
\* that reported success completes before the next step begins; the body of
\* an inapplicable attempt is followed by the next attempt, or after a
\* rejection by the next step, with no check in between.
C12_CompletedAlternate ==
    hasCheck =>
      /\ doneSince <= 1
      /\ doneSince = 1 => (pc \in {"end", "check"} /\ last = "completed")
      /\ pc \in {"start", "more", "loop", "draw", "run", "reject", "done", "aborted"}
           => doneSince = 0

C12_Witness ==
    /\ hasCheck
    /\ pc = "check"
    /\ checkCalls >= 2
    /\ sinceCheck >= 2
    /\ doneSince = 1

\* C14: executeAction returns false exactly for the attempts that were
\* inapplicable after drawing; for each of them Repeat calls reject once,
\* invoking neither the check nor failOnError (a pending error stays
\* pending), and the step is taken back from the count of steps, which so
\* counts the completed steps only; after a return of true reject is not
\* called.
C14_RejectOncePerFalse ==
    /\ [](rejects = costlyRuns -
            (IF pc \in {"end", "reject"} /\ last = "costly" THEN 1 ELSE 0))
    /\ [](pc \in {"more", "done"} => count = completed)
    /\ [][pc = "reject" =>
            /\ pc' = "more"
            /\ rejects' = rejects + 1
            /\ count' = count - 1
            /\ checkCalls' = checkCalls
            /\ failed' = failed
            /\ panicked' = NoPanic]_vars
    /\ [][pc = "check" => rejects' = rejects]_vars

C14_Witness ==
    /\ pc = "more"
    /\ hasCheck
    /\ rejects = 1
    /\ failed
    /\ count = 0
    /\ checkCalls = 1

\* C15: when an action body returns normally while an error is pending in
\* t, runAction's failOnError ends the trial: executeAction does not return
\* true and the check is not invoked after that action; an error left
\* pending by a check ends the trial before the next step.  An error is
\* only ever pending in a live trial after an attempt that raised
\* invalidData.
C15_PendingFailureIsFatal ==
    /\ (last = "fatal" /\ action.ending \in {"return", "error"}) =>
         (pc = "aborted" /\ panicked = failedMsg /\ failed /\ ran = 0
          /\ (hasCheck => doneSince = 0) /\ lastCheck \in {"none", "return"})
    /\ failed =>
         \/ pc = "aborted" /\ panicked \in {failedMsg, actionFault, noValidActionsMsg}
         \/ pc \in {"end", "loop", "draw", "run", "reject", "more"}
              /\ last \in {"free", "costly"}
    /\ pc = "check" => ~failed
    /\ lastCheck = "error" => (pc = "aborted" /\ panicked = failedMsg)

C15_Witness ==
    /\ last = "fatal"
    /\ action.ending = "return"
    /\ failed
    /\ pc = "aborted"
    /\ rejects >= 1

\* C16: an inapplicable attempt counts as having consumed entropy (is not
\* skipped) exactly when the body of its action drew: the counter is
\* compared with its value at the entry of runAction, so neither the draw
\* that selected the action nor the draws of earlier attempts and steps
\* count.
C16_ConsumedSinceActionStart ==
    /\ (pc = "end" /\ invalid) => (skipped <=> action.draws = 0)
    /\ (pc = "end" /\ ~invalid) => ~skipped

C16_Witness ==
    /\ pc = "end"
    /\ invalid
    /\ skipped
    /\ rejects >= 1
    /\ draws >= 3

\* C17: a call of executeAction raises NoValidAction exactly when 100
\* attempts of that call in a row raised invalidData without drawing; the
\* attempt counter counts those attempts of the call and starts at 0 with
\* every call.
C17_NoValidIffHundredFree ==
    /\ [](NoValid => (frees = validActionTries /\ attempts = validActionTries
                      /\ n = validActionTries /\ last = "free"))
    /\ [](pc \in {"loop", "draw", "run"} => n = frees)
    /\ [](pc \in {"draw", "run", "end"} => n < validActionTries)
    /\ []((pc = "loop" /\ attempts = 0) => n = 0)
    /\ [][(pc = "loop" /\ frees = validActionTries) =>
            (pc' = "aborted" /\ panicked' = noValidActionsMsg)]_vars
    /\ [][(pc = "loop" /\ frees < validActionTries) => pc' = "draw"]_vars

C17_Witness ==
    /\ NoValid
    /\ frees = validActionTries
    /\ completed = 1
    /\ groups > validActionTries + 1

\* C18: executeAction returns false exactly when an attempt raised
\* invalidData after drawing, and on that very attempt: no further action
\* is drawn and no further group is begun in the call.
C18_FalseIffCostly ==
    /\ [](pc = "reject" => (last = "costly" /\ attempts = n + 1 /\ frees = n))
    /\ []((last = "costly" /\ pc \in {"loop", "draw"}) => attempts = 0)
    /\ [][(pc = "end" /\ last = "costly") =>
            (pc' = "reject" /\ attempts' = attempts /\ groups' = groups)]_vars
    /\ [][pc' = "reject" => (pc = "end" /\ last = "costly")]_vars

C18_Witness ==
    /\ pc = "reject"
    /\ n >= 1
    /\ attempts = n + 1
    /\ attempts < validActionTries

\* C19: an attempt that does not end in a fault has its group ended, after
\* the action ran, with the handle beginGroup returned and discard false,
\* inapplicable attempts included, before the next group is begun or
\* executeAction returns; at most one group is open at any time and one
\* action is drawn in each.
C19_OneGroupPerAttempt ==
    /\ Cardinality(open) <= 1
    /\ pc = "draw" => (inGroup = 0 /\ open = {i})
    /\ pc \in {"run", "end"} => (inGroup = 1 /\ open = {i})
    /\ (attempts > 0 /\ pc \in {"loop", "check", "reject"}) =>
         /\ ended = [handle |-> i, discard |-> FALSE, drawn |-> 1]
         /\ open = {}
         /\ i = groups - 1
    /\ pc \in {"draw", "run", "end"} => ended.handle < i
    /\ last = "fatal" => ended.handle < i

C19_Witness ==
    /\ pc = "loop"
    /\ last = "free"
    /\ i >= 2
    /\ ended = [handle |-> i, discard |-> FALSE, drawn |-> 1]

====
